---- MODULE Spec2Model ----
(***************************************************************************)
(* Model of the semilog "threads" crate: the per-actor append-only schema  *)
(* (Owned / Shared / Slice / Root), the Actor session operations that      *)
(* mutate one copy of an actor's Slice, and the fold of Roots into the     *)
(* materialized Detailed view.                                             *)
(*                                                                         *)
(* The primitive lattices (Max, Set, Map, GuardedPair, Redactable) live in *)
(* the `semilattice` crate, whose source is not part of the tree modelled  *)
(* here; they are modelled from the written description of their joins.    *)
(***************************************************************************)
EXTENDS Integers, Sequences, FiniteSets, TLC

(***************************************************************************)
(* Bounds and input domains                                                *)
(***************************************************************************)
\* number of session operations (and copy joins) in a behaviour
MaxOps == 3
\* number of folds into the running Detailed in a behaviour
MaxFolds == 2
\* number of session operations in a behaviour that also folds
MaxAuthored == 2
\* largest tag counter of a Slice a session starts from
MaxStored == 7
\* largest Max<u64> field of a derived struct value
MaxField == 2
\* number of reads and writes of the git references in a behaviour
MaxStoreSteps == 4

\* `<< 16` in the identifier scheme (lib.rs:73, 99, 116-118)
DeviceBits == 16
DeviceSpan == 2 ^ DeviceBits
\* A u64 is written by its representative of least magnitude modulo 2^64:
\* 2^64 - n is written -n, so u64::MAX is -1.  Sums, products by DeviceSpan
\* and floored quotients by DeviceSpan of representatives are the
\* representatives of the wrapped u64 results.
U64Max == -1

\* BTreeMap iterates actors in ascending order; strings are ranked by this
\* sequence, which is ascending in byte order.
ActorSeq == <<"alice", "bob">>
Actors == {ActorSeq[i] : i \in 1..Len(ActorSeq)}
\* a session is (ActorID, device_id); alice has two devices
Sessions == {<<"alice", 0>>, <<"alice", 1>>, <<"bob", 0>>}
DeviceSessions == {<<"alice", 0>>, <<"alice", 1>>}
FoldSessions == Sessions

BodySeq == <<"b1", "b2">>
Bodies == {BodySeq[i] : i \in 1..Len(BodySeq)}
\* the bodies new_thread and reply are called with; edit is called with any
FirstBodies == {BodySeq[1]}
Titles == {"t1"}
TagNames == {"g1"}
ProductElems == {"p", "q"}
ReactionNames == {"r1"}
\* LocalIDs and content versions passed as arguments
IdArgs == {0, 1, DeviceSpan}
VersionArgs == {0, DeviceSpan, U64Max}
\* MessageIDs passed as reply parents and vote targets
TargetArgs == {<<"alice", 0>>, <<"bob", 0>>}
StoreTargets == {<<"alice", 0>>}

(***************************************************************************)
(* Primitive lattices                                                      *)
(***************************************************************************)
EmptyMap == <<>>

\* Map::entry / Map::entry_mut: the value at k, or the default (bottom)
Entry(m, k, default) == IF k \in DOMAIN m THEN m[k] ELSE default

\* the map after writing v at k
MapPut(m, k, v) == [x \in DOMAIN m \cup {k} |-> IF x = k THEN v ELSE m[x]]

\* Max<u64>
MaxJoin(a, b) == IF a >= b THEN a ELSE b

\* Set<T>
SetJoin(a, b) == a \cup b

\* Redactable<String>: bottom, a live value, or a tombstone
Bottom == [tag |-> "Bottom", data |-> ""]
Data(b) == [tag |-> "Data", data |-> b]
Redacted == [tag |-> "Redacted", data |-> ""]

BodyRank(b) == CHOOSE i \in 1..Len(BodySeq) : BodySeq[i] = b

\* a tombstone absorbs; bottom is the identity; two different live values
\* are resolved by byte order (the greater one is kept)
RedactableJoin(a, b) ==
    IF a.tag = "Redacted" \/ b.tag = "Redacted" THEN Redacted
    ELSE IF a.tag = "Bottom" THEN b
    ELSE IF b.tag = "Bottom" THEN a
    ELSE IF BodyRank(a.data) >= BodyRank(b.data) THEN a ELSE b

\* GuardedPair<Max<u64>, Set<String>>
GuardedPairDefault == [guard |-> 0, value |-> {}]

GuardedPairJoin(p, q) ==
    IF p.guard > q.guard THEN p
    ELSE IF q.guard > p.guard THEN q
    ELSE [guard |-> p.guard, value |-> SetJoin(p.value, q.value)]

\* Map<K, Max<u64>>: union of keys, maximum on shared keys
CounterMapJoin(m1, m2) ==
    [k \in DOMAIN m1 \cup DOMAIN m2 |->
        IF k \in DOMAIN m1 /\ k \in DOMAIN m2 THEN MaxJoin(m1[k], m2[k])
        ELSE IF k \in DOMAIN m1 THEN m1[k] ELSE m2[k]]

\* Map<u64, Redactable<String>>
ContentJoin(m1, m2) ==
    [k \in DOMAIN m1 \cup DOMAIN m2 |->
        IF k \in DOMAIN m1 /\ k \in DOMAIN m2 THEN RedactableJoin(m1[k], m2[k])
        ELSE IF k \in DOMAIN m1 THEN m1[k] ELSE m2[k]]

(***************************************************************************)
(* Per-actor schema (derived componentwise joins)                          *)
(***************************************************************************)
OwnedDefault ==
    [titles |-> GuardedPairDefault, reply_to |-> {}, content |-> EmptyMap]

OwnedJoin(a, b) ==
    [titles |-> GuardedPairJoin(a.titles, b.titles),
     reply_to |-> SetJoin(a.reply_to, b.reply_to),
     content |-> ContentJoin(a.content, b.content)]

SharedDefault == [tags |-> EmptyMap, reactions |-> EmptyMap]

SharedJoin(a, b) ==
    [tags |-> CounterMapJoin(a.tags, b.tags),
     reactions |-> CounterMapJoin(a.reactions, b.reactions)]

SliceDefault == [owned |-> EmptyMap, shared |-> EmptyMap]

OwnedMapJoin(m1, m2) ==
    [k \in DOMAIN m1 \cup DOMAIN m2 |->
        IF k \in DOMAIN m1 /\ k \in DOMAIN m2 THEN OwnedJoin(m1[k], m2[k])
        ELSE IF k \in DOMAIN m1 THEN m1[k] ELSE m2[k]]

SharedMapJoin(m1, m2) ==
    [k \in DOMAIN m1 \cup DOMAIN m2 |->
        IF k \in DOMAIN m1 /\ k \in DOMAIN m2 THEN SharedJoin(m1[k], m2[k])
        ELSE IF k \in DOMAIN m1 THEN m1[k] ELSE m2[k]]

SliceJoin(a, b) ==
    [owned |-> OwnedMapJoin(a.owned, b.owned),
     shared |-> SharedMapJoin(a.shared, b.shared)]

\* Root.inner : Map<ActorID, Slice>
RootJoin(r1, r2) ==
    [a \in DOMAIN r1 \cup DOMAIN r2 |->
        IF a \in DOMAIN r1 /\ a \in DOMAIN r2 THEN SliceJoin(r1[a], r2[a])
        ELSE IF a \in DOMAIN r1 THEN r1[a] ELSE r2[a]]

(***************************************************************************)
(* Actor session operations, as functions of the session's Slice           *)
(***************************************************************************)

\* variant: the device id is left out of the identifier
AllocIdNoDevice(slice, device_id) ==
    Cardinality(DOMAIN slice.owned) * DeviceSpan

\* (owned.len() << 16) + device_id
AllocId(slice, device_id) ==
    Cardinality(DOMAIN slice.owned) * DeviceSpan + device_id

\* the authoring tags of new_thread, each mapped to Max(1)
TagVotes(tags) == [t \in tags |-> 1]

\* Actor::new_thread: the Slice afterwards
NewThreadSlice(slice, actor, device_id, title, message, tags) ==
    LET id == AllocId(slice, device_id)
        item == [titles |-> [guard |-> 0, value |-> {title}],
                 reply_to |-> {},
                 content |-> MapPut(EmptyMap, 0, Data(message))]
        sh == Entry(slice.shared, <<actor, id>>, SharedDefault)
    IN [owned |-> MapPut(slice.owned, id,
                         OwnedJoin(Entry(slice.owned, id, OwnedDefault), item)),
        shared |-> MapPut(slice.shared, <<actor, id>>,
                          [sh EXCEPT !.tags = CounterMapJoin(@, TagVotes(tags))])]

\* Actor::reply: the Slice afterwards
ReplySlice(slice, device_id, parent, message) ==
    LET id == AllocId(slice, device_id)
        item == [titles |-> GuardedPairDefault,
                 reply_to |-> {parent},
                 content |-> MapPut(EmptyMap, 0, Data(message))]
    IN [slice EXCEPT !.owned =
            MapPut(@, id, OwnedJoin(Entry(@, id, OwnedDefault), item))]

\* the order of u64 on representatives: those of 2^64 - n come last
U64Leq(a, b) ==
    \/ a >= 0 /\ b < 0
    \/ (a >= 0 <=> b >= 0) /\ a <= b

\* BTreeMap::last_key_value on a non-empty content map
LastKey(content) ==
    CHOOSE k \in DOMAIN content : \A j \in DOMAIN content : U64Leq(j, k)

\* the version Actor::edit writes and returns: `(x.0 >> 16) + 1` shifted left
\* by 16, which drops the bits above 2^64, plus device_id
EditVersion(slice, device_id, id) ==
    LET content == Entry(slice.owned, id, OwnedDefault).content
        high == IF DOMAIN content = {} THEN 0
                ELSE (LastKey(content) \div DeviceSpan) + 1
    IN high * DeviceSpan + device_id


\* variant: the latest version is overwritten in place
EditSliceOverwrite(slice, device_id, id, message) ==
    LET item == Entry(slice.owned, id, OwnedDefault)
        version == IF DOMAIN item.content = {} THEN device_id
                   ELSE LastKey(item.content)
    IN [slice EXCEPT !.owned =
            MapPut(@, id, [item EXCEPT !.content = MapPut(@, version, Data(message))])]

\* Actor::edit: the Slice afterwards
EditSlice(slice, device_id, id, message) ==
    LET item == Entry(slice.owned, id, OwnedDefault)
        version == EditVersion(slice, device_id, id)
        cell == RedactableJoin(Entry(item.content, version, Bottom), Data(message))
    IN [slice EXCEPT !.owned =
            MapPut(@, id, [item EXCEPT !.content = MapPut(@, version, cell)])]


\* variant: every version of the item is tombstoned
RedactSliceAll(slice, id, version) ==
    LET item == Entry(slice.owned, id, OwnedDefault)
    IN [slice EXCEPT !.owned =
            MapPut(@, id,
                   [item EXCEPT !.content =
                        [v \in DOMAIN item.content \cup {version} |-> Redacted]])]

\* Actor::redact: the Slice afterwards
RedactSlice(slice, id, version) ==
    LET item == Entry(slice.owned, id, OwnedDefault)
        cell == RedactableJoin(Entry(item.content, version, Bottom), Redacted)
    IN [slice EXCEPT !.owned =
            MapPut(@, id, [item EXCEPT !.content = MapPut(@, version, cell)])]


\* variant: withdrawing a reaction steps the counter back
ReactCounterToggleDown(stored, vote) ==
    IF stored % 2 # (IF vote THEN 1 ELSE 0)
    THEN (IF vote THEN stored + 1 ELSE stored - 1)
    ELSE stored

\* the counter after react: `if stored % 2 != vote { stored += 1 }`
ReactCounter(stored, vote) ==
    IF stored % 2 # (IF vote THEN 1 ELSE 0) THEN stored + 1 ELSE stored


\* variant: the counter is stepped on every call, whatever is stored
ReactSliceAlways(slice, target, reaction, vote) ==
    LET sh == Entry(slice.shared, target, SharedDefault)
        stored == Entry(sh.reactions, reaction, 0)
    IN [slice EXCEPT !.shared =
            MapPut(@, target,
                   [sh EXCEPT !.reactions = MapPut(@, reaction, stored + 1)])]

\* Actor::react: the Slice afterwards
ReactSlice(slice, target, reaction, vote) ==
    LET sh == Entry(slice.shared, target, SharedDefault)
        stored == Entry(sh.reactions, reaction, 0)
    IN [slice EXCEPT !.shared =
            MapPut(@, target,
                   [sh EXCEPT !.reactions =
                        MapPut(@, reaction, ReactCounter(stored, vote))])]


\* variant: adding a negative tag steps the counter by one
AddTransitionStep(c) ==
    CASE c % 4 = 0 -> c + 1
      [] c % 4 = 1 -> c
      [] c % 4 = 2 -> c + 1
      [] OTHER -> c + 2

\* the `for tag in add` match of adjust_tags
AddTransition(c) ==
    CASE c % 4 = 0 -> c + 1
      [] c % 4 = 1 -> c
      [] c % 4 = 2 -> c + 3
      [] OTHER -> c + 2


\* variant: removing a positive tag steps the counter back to neutral
RemoveTransitionDecrement(c) ==
    CASE c % 4 = 0 -> c + 2
      [] c % 4 = 1 -> c - 1
      [] c % 4 = 2 -> c
      [] OTHER -> c + 3

\* the `for tag in remove` match of adjust_tags
RemoveTransition(c) ==
    CASE c % 4 = 0 -> c + 2
      [] c % 4 = 1 -> c + 1
      [] c % 4 = 2 -> c
      [] OTHER -> c + 3

\* Actor::adjust_tags: the Slice afterwards (all of add, then all of remove)
AdjustTagsSlice(slice, target, add, remove) ==
    LET sh == Entry(slice.shared, target, SharedDefault)
        added == [t \in DOMAIN sh.tags \cup add |->
                     IF t \in add THEN AddTransition(Entry(sh.tags, t, 0))
                     ELSE sh.tags[t]]
        removed == [t \in DOMAIN added \cup remove |->
                       IF t \in remove THEN RemoveTransition(Entry(added, t, 0))
                       ELSE added[t]]
    IN [slice EXCEPT !.shared = MapPut(@, target, [sh EXCEPT !.tags = removed])]

(***************************************************************************)
(* Materialized view: Thread, Comment, Detailed                            *)
(***************************************************************************)
ThreadDefault == [titles |-> GuardedPairDefault, tags |-> EmptyMap]

CommentDefault ==
    [reply_to |-> {}, content |-> EmptyMap, reactions |-> EmptyMap,
     backrefs |-> {}]

DetailedDefault == [threads |-> EmptyMap, messages |-> EmptyMap]

\* Map<Reaction, Vote<N>> and Map<Tag, Vote<N>>; Vote<N> is Map<ActorID, Max<u64>>
VoteMapJoin(m1, m2) ==
    [k \in DOMAIN m1 \cup DOMAIN m2 |->
        IF k \in DOMAIN m1 /\ k \in DOMAIN m2 THEN CounterMapJoin(m1[k], m2[k])
        ELSE IF k \in DOMAIN m1 THEN m1[k] ELSE m2[k]]

\* variant: the other side's backrefs are dropped
CommentJoinKeepBackrefs(a, b) ==
    [reply_to |-> SetJoin(a.reply_to, b.reply_to),
     content |-> ContentJoin(a.content, b.content),
     reactions |-> VoteMapJoin(a.reactions, b.reactions),
     backrefs |-> a.backrefs]

CommentJoin(a, b) ==
    [reply_to |-> SetJoin(a.reply_to, b.reply_to),
     content |-> ContentJoin(a.content, b.content),
     reactions |-> VoteMapJoin(a.reactions, b.reactions),
     backrefs |-> SetJoin(a.backrefs, b.backrefs)]

ThreadJoin(a, b) ==
    [titles |-> GuardedPairJoin(a.titles, b.titles),
     tags |-> VoteMapJoin(a.tags, b.tags)]

\* Map<u64, Thread> and Map<u64, Comment>
ThreadMapJoin(m1, m2) ==
    [k \in DOMAIN m1 \cup DOMAIN m2 |->
        IF k \in DOMAIN m1 /\ k \in DOMAIN m2 THEN ThreadJoin(m1[k], m2[k])
        ELSE IF k \in DOMAIN m1 THEN m1[k] ELSE m2[k]]

CommentMapJoin(m1, m2) ==
    [k \in DOMAIN m1 \cup DOMAIN m2 |->
        IF k \in DOMAIN m1 /\ k \in DOMAIN m2 THEN CommentJoin(m1[k], m2[k])
        ELSE IF k \in DOMAIN m1 THEN m1[k] ELSE m2[k]]

\* Map<ActorID, Map<u64, Thread>> and Map<ActorID, Map<u64, Comment>>
ThreadsJoin(m1, m2) ==
    [k \in DOMAIN m1 \cup DOMAIN m2 |->
        IF k \in DOMAIN m1 /\ k \in DOMAIN m2 THEN ThreadMapJoin(m1[k], m2[k])
        ELSE IF k \in DOMAIN m1 THEN m1[k] ELSE m2[k]]

MessagesJoin(m1, m2) ==
    [k \in DOMAIN m1 \cup DOMAIN m2 |->
        IF k \in DOMAIN m1 /\ k \in DOMAIN m2 THEN CommentMapJoin(m1[k], m2[k])
        ELSE IF k \in DOMAIN m1 THEN m1[k] ELSE m2[k]]

\* the derived join of two Detailed values
DetailedJoin(d1, d2) ==
    [threads |-> ThreadsJoin(d1.threads, d2.threads),
     messages |-> MessagesJoin(d1.messages, d2.messages)]

\* m[a][id], bottom when absent
Get2(m, a, id, default) == Entry(Entry(m, a, EmptyMap), id, default)

\* m with m[a][id] written (both levels created on demand)
Put2(m, a, id, v) == MapPut(m, a, MapPut(Entry(m, a, EmptyMap), id, v))

\* `.map(|(r, v)| (r, Vote(Map::singleton(actor, v))))`
Rekey(counters, actor) ==
    [r \in DOMAIN counters |-> MapPut(EmptyMap, actor, counters[r])]


\* variant: the parent is recorded instead of the replying item
RECURSIVE InsertBackrefsParent(_, _, _)
InsertBackrefsParent(messages, parents, ref) ==
    IF parents = {} THEN messages
    ELSE LET br == CHOOSE p \in parents : TRUE
             c == Get2(messages, br[1], br[2], CommentDefault)
         IN InsertBackrefsParent(
                Put2(messages, br[1], br[2],
                     [c EXCEPT !.backrefs = @ \cup {br}]),
                parents \ {br}, ref)

\* `for br in &*reply_to { messages.entry(br.0).entry(br.1).backrefs.insert((actor, id)) }`
RECURSIVE InsertBackrefs(_, _, _)
InsertBackrefs(messages, parents, ref) ==
    IF parents = {} THEN messages
    ELSE LET br == CHOOSE p \in parents : TRUE
             c == Get2(messages, br[1], br[2], CommentDefault)
         IN InsertBackrefs(
                Put2(messages, br[1], br[2],
                     [c EXCEPT !.backrefs = @ \cup {ref}]),
                parents \ {br}, ref)


\* variant: the Comment is assigned to the slot instead of joined into it
FoldOwnedOverwrite(d, actor, id, item) ==
    LET t == Get2(d.threads, actor, id, ThreadDefault)
        threads1 == IF item.titles.value # {}
                    THEN Put2(d.threads, actor, id,
                              [t EXCEPT !.titles = GuardedPairJoin(@, item.titles)])
                    ELSE d.threads
        messages1 == InsertBackrefs(d.messages, item.reply_to, <<actor, id>>)
        messages2 == Put2(messages1, actor, id,
                          [reply_to |-> item.reply_to,
                           content |-> item.content,
                           reactions |-> EmptyMap,
                           backrefs |-> {}])
    IN [threads |-> threads1, messages |-> messages2]

\* body of the loop over slice.owned (detailed.rs:49-60)
FoldOwned(d, actor, id, item) ==
    LET t == Get2(d.threads, actor, id, ThreadDefault)
        threads1 == IF item.titles.value # {}
                    THEN Put2(d.threads, actor, id,
                              [t EXCEPT !.titles = GuardedPairJoin(@, item.titles)])
                    ELSE d.threads
        messages1 == InsertBackrefs(d.messages, item.reply_to, <<actor, id>>)
        c == Get2(messages1, actor, id, CommentDefault)
        messages2 == Put2(messages1, actor, id,
                          CommentJoin(c, [reply_to |-> item.reply_to,
                                          content |-> item.content,
                                          reactions |-> EmptyMap,
                                          backrefs |-> {}]))
    IN [threads |-> threads1, messages |-> messages2]


\* variant: the re-keyed votes are assigned instead of joined
FoldSharedOverwrite(d, actor, key, sh) ==
    LET c == Get2(d.messages, key[1], key[2], CommentDefault)
        messages1 == Put2(d.messages, key[1], key[2],
                          [c EXCEPT !.reactions = Rekey(sh.reactions, actor)])
        t == Get2(d.threads, key[1], key[2], ThreadDefault)
        threads1 == IF DOMAIN sh.tags # {}
                    THEN Put2(d.threads, key[1], key[2],
                              [t EXCEPT !.tags = Rekey(sh.tags, actor)])
                    ELSE d.threads
    IN [threads |-> threads1, messages |-> messages1]

\* variant: the votes are attributed to the target's author
FoldSharedTargetActor(d, actor, key, sh) ==
    LET c == Get2(d.messages, key[1], key[2], CommentDefault)
        messages1 == Put2(d.messages, key[1], key[2],
                          [c EXCEPT !.reactions =
                               VoteMapJoin(@, Rekey(sh.reactions, key[1]))])
        t == Get2(d.threads, key[1], key[2], ThreadDefault)
        threads1 == IF DOMAIN sh.tags # {}
                    THEN Put2(d.threads, key[1], key[2],
                              [t EXCEPT !.tags = VoteMapJoin(@, Rekey(sh.tags, key[1]))])
                    ELSE d.threads
    IN [threads |-> threads1, messages |-> messages1]

\* variant: the target's Comment is created only when there are reactions
FoldSharedLazy(d, actor, key, sh) ==
    LET c == Get2(d.messages, key[1], key[2], CommentDefault)
        messages1 == IF DOMAIN sh.reactions # {}
                     THEN Put2(d.messages, key[1], key[2],
                               [c EXCEPT !.reactions =
                                    VoteMapJoin(@, Rekey(sh.reactions, actor))])
                     ELSE d.messages
        t == Get2(d.threads, key[1], key[2], ThreadDefault)
        threads1 == IF DOMAIN sh.tags # {}
                    THEN Put2(d.threads, key[1], key[2],
                              [t EXCEPT !.tags = VoteMapJoin(@, Rekey(sh.tags, actor))])
                    ELSE d.threads
    IN [threads |-> threads1, messages |-> messages1]

\* body of the loop over slice.shared (detailed.rs:64-82)
FoldShared(d, actor, key, sh) ==
    LET c == Get2(d.messages, key[1], key[2], CommentDefault)
        messages1 == Put2(d.messages, key[1], key[2],
                          [c EXCEPT !.reactions =
                               VoteMapJoin(@, Rekey(sh.reactions, actor))])
        t == Get2(d.threads, key[1], key[2], ThreadDefault)
        threads1 == IF DOMAIN sh.tags # {}
                    THEN Put2(d.threads, key[1], key[2],
                              [t EXCEPT !.tags = VoteMapJoin(@, Rekey(sh.tags, actor))])
                    ELSE d.threads
    IN [threads |-> threads1, messages |-> messages1]

RECURSIVE FoldOwnedFrom(_, _, _, _, _)
FoldOwnedFrom(d, actor, owned, order, i) ==
    IF i > Len(order) THEN d
    ELSE FoldOwnedFrom(FoldOwned(d, actor, order[i], owned[order[i]]),
                       actor, owned, order, i + 1)

RECURSIVE FoldSharedFrom(_, _, _, _, _)
FoldSharedFrom(d, actor, shared, order, i) ==
    IF i > Len(order) THEN d
    ELSE FoldSharedFrom(FoldShared(d, actor, order[i], shared[order[i]]),
                        actor, shared, order, i + 1)

\* one iteration of `for (actor, slice) in other.inner`, visiting the owned
\* items and the shared entries in the given orders; `self.threads.entry(actor)`
\* makes the actor's thread map exist
FoldSlice(d, actor, slice, ownedOrder, sharedOrder) ==
    LET d0 == [d EXCEPT !.threads = MapPut(@, actor, Entry(@, actor, EmptyMap))]
        d1 == FoldOwnedFrom(d0, actor, slice.owned, ownedOrder, 1)
    IN FoldSharedFrom(d1, actor, slice.shared, sharedOrder, 1)

\* the fold with explicit iteration orders: actorOrder is a sequence of the
\* Root's actors, orders[a] the pair of orders used inside actor a's Slice
RECURSIVE FoldRootFrom(_, _, _, _, _)
FoldRootFrom(d, root, actorOrder, orders, i) ==
    IF i > Len(actorOrder) THEN d
    ELSE LET a == actorOrder[i]
         IN FoldRootFrom(FoldSlice(d, a, root[a], orders[a][1], orders[a][2]),
                         root, actorOrder, orders, i + 1)

ActorRank(a) == CHOOSE i \in 1..Len(ActorSeq) : ActorSeq[i] = a

RECURSIVE SortedIds(_)
SortedIds(S) ==
    IF S = {} THEN <<>>
    ELSE LET m == CHOOSE x \in S : \A y \in S : x <= y
         IN <<m>> \o SortedIds(S \ {m})

\* the order of (ActorID, u64) keys
KeyLeq(x, y) ==
    \/ ActorRank(x[1]) < ActorRank(y[1])
    \/ x[1] = y[1] /\ x[2] <= y[2]

RECURSIVE SortedKeys(_)
SortedKeys(S) ==
    IF S = {} THEN <<>>
    ELSE LET m == CHOOSE x \in S : \A y \in S : KeyLeq(x, y)
         IN <<m>> \o SortedKeys(S \ {m})

RECURSIVE SortedActors(_)
SortedActors(S) ==
    IF S = {} THEN <<>>
    ELSE LET m == CHOOSE x \in S : \A y \in S : ActorRank(x) <= ActorRank(y)
         IN <<m>> \o SortedActors(S \ {m})

\* impl SemiLattice<Root> for Detailed :: join, iterating every BTreeMap in
\* ascending key order
DetailedJoinRoot(d, root) ==
    FoldRootFrom(d, root, SortedActors(DOMAIN root),
                 [a \in DOMAIN root |->
                     <<SortedIds(DOMAIN root[a].owned),
                       SortedKeys(DOMAIN root[a].shared)>>],
                 1)

(***************************************************************************)
(* Storage: the published Slices and the cached blob                       *)
(***************************************************************************)
\* refs/threads-materialized does not exist
CacheAbsent == [state |-> "absent", root |-> EmptyMap]
\* the reference points at bytes minicbor cannot decode
CacheUndecodable == [state |-> "undecodable", root |-> EmptyMap]
\* the reference points at the encoding of root.inner
CacheBlob(root) == [state |-> "blob", root |-> root]

\* no publish of the process is between its read and its write
NotReading == [open |-> FALSE, tree |-> EmptyMap, name |-> "", blob |-> SliceDefault]

\* no load has been attempted; a load panicked; a load returned root
NotLoaded == [status |-> "none", root |-> EmptyMap]
LoadPanic == [status |-> "panic", root |-> EmptyMap]
LoadOk(root) == [status |-> "ok", root |-> root]

\* Root::coalate_slices_into_root_from_git: every published Slice, each
\* joined into the bottom Slice of a fresh Root
CoalateRoot(st) == [a \in DOMAIN st |-> SliceJoin(SliceDefault, st[a])]

\* variant: a missing or undecodable cache falls back to the published Slices
LoadCacheFallback(c, st) ==
    IF c.state = "blob" THEN LoadOk(c.root) ELSE LoadOk(CoalateRoot(st))

\* Root::load_cache_from_git: `.expect` on the reference lookup and on the
\* decoding
LoadCacheResult(c, st) ==
    IF c.state = "blob" THEN LoadOk(c.root) ELSE LoadPanic

(***************************************************************************)
(* Derived join and comparison of a struct (semilog-macros)                *)
(***************************************************************************)
\* the struct has a Max<u64> field m and a Set<String> field s
ProductDefault == [m |-> 0, s |-> {}]

\* PartialOrd of Max<u64> and of Set<String>: the orders of their joins
MaxCmp(a, b) == IF a = b THEN "Equal" ELSE IF a < b THEN "Less" ELSE "Greater"

SetCmp(a, b) ==
    IF a = b THEN "Equal"
    ELSE IF a \subseteq b THEN "Less"
    ELSE IF b \subseteq a THEN "Greater"
    ELSE "None"

\* partial_ord_helper: the per-field orderings combined
PartialOrdHelper(ords) ==
    LET rng == {ords[i] : i \in 1..Len(ords)}
    IN IF rng \subseteq {"Equal"} THEN "Equal"
       ELSE IF rng \subseteq {"Equal", "Less"} THEN "Less"
       ELSE IF rng \subseteq {"Equal", "Greater"} THEN "Greater"
       ELSE "None"

\* variant: the second field is taken from self instead of joined
ProductJoinFirst(x, y) == [m |-> MaxJoin(x.m, y.m), s |-> x.s]

\* semilattice_join: `#name: Semilattice::join(self.#name, other.#name),`
ProductJoin(x, y) == [m |-> MaxJoin(x.m, y.m), s |-> SetJoin(x.s, y.s)]

\* partial_ord_cmp: `partial_ord_helper([partial_cmp(&self.#name, &other.#name), ...])`
ProductCmp(x, y) == PartialOrdHelper(<<MaxCmp(x.m, y.m), SetCmp(x.s, y.s)>>)

(***************************************************************************)
(* State                                                                   *)
(***************************************************************************)
VARIABLES
    slice,   \* slice[s]: the copy of its actor's Slice that session s works on
    issued,  \* issued[s]: the LocalIDs new_thread / reply returned to s, in order
    nops,    \* session operations and copy joins performed so far
    view,    \* the running Detailed
    folded,  \* the join of every Root folded into view so far
    nfolds,  \* folds performed so far
    store,   \* refs/threads: the Slice last published under each actor's name
    cache,   \* refs/threads-materialized: absent, undecodable or a saved Root
    loaded,  \* outcome of the last load_cache_from_git
    prod,    \* three values of a struct with derived join and comparison
    process_root, \* process_root[s]: the Root process s built when it last read refs/threads
    reading, \* reading[s]: the tree a publish of s has read and not yet written
    nstore   \* reads and writes of the git references performed so far

vars == <<slice, issued, nops, view, folded, nfolds, store, cache, loaded, prod, process_root, reading, nstore>>

SameActor(s, t) == s[1] = t[1]

\* sets of sessions holding at most one copy per actor
RootChoices ==
    {S \in SUBSET FoldSessions :
        S # {} /\ \A s \in S, t \in S : SameActor(s, t) => s = t}

\* the Root whose entry for each chosen session's actor is that session's copy
RootOf(S) ==
    [a \in {s[1] : s \in S} |-> slice[CHOOSE s \in S : s[1] = a]]

Init ==
    /\ slice = [s \in Sessions |-> SliceDefault]
    /\ issued = [s \in Sessions |-> <<>>]
    /\ nops = 0
    /\ view = DetailedDefault
    /\ folded = EmptyMap
    /\ nfolds = 0
    /\ store = EmptyMap
    /\ cache = CacheAbsent
    /\ loaded = NotLoaded
    /\ prod = <<ProductDefault, ProductDefault, ProductDefault>>
    /\ process_root = [s \in Sessions |-> EmptyMap]
    /\ reading = [s \in Sessions |-> NotReading]
    /\ nstore = 0

(***************************************************************************)
(* Actions                                                                 *)
(***************************************************************************)
NewThread(s, title, message, tags) ==
    /\ nops < MaxOps
    /\ slice' = [slice EXCEPT ![s] =
                    NewThreadSlice(slice[s], s[1], s[2], title, message, tags)]
    /\ issued' = [issued EXCEPT ![s] = Append(@, AllocId(slice[s], s[2]))]
    /\ nops' = nops + 1
    /\ UNCHANGED <<view, folded, nfolds, store, cache, loaded, prod, process_root, reading, nstore>>

Reply(s, parent, message) ==
    /\ nops < MaxOps
    /\ slice' = [slice EXCEPT ![s] = ReplySlice(slice[s], s[2], parent, message)]
    /\ issued' = [issued EXCEPT ![s] = Append(@, AllocId(slice[s], s[2]))]
    /\ nops' = nops + 1
    /\ UNCHANGED <<view, folded, nfolds, store, cache, loaded, prod, process_root, reading, nstore>>

Edit(s, id, message) ==
    /\ nops < MaxOps
    /\ slice' = [slice EXCEPT ![s] = EditSlice(slice[s], s[2], id, message)]
    /\ nops' = nops + 1
    /\ UNCHANGED <<issued, view, folded, nfolds, store, cache, loaded, prod, process_root, reading, nstore>>

Redact(s, id, version) ==
    /\ nops < MaxOps
    /\ slice' = [slice EXCEPT ![s] = RedactSlice(slice[s], id, version)]
    /\ nops' = nops + 1
    /\ UNCHANGED <<issued, view, folded, nfolds, store, cache, loaded, prod, process_root, reading, nstore>>

React(s, target, reaction, vote) ==
    /\ nops < MaxOps
    /\ slice' = [slice EXCEPT ![s] = ReactSlice(slice[s], target, reaction, vote)]
    /\ nops' = nops + 1
    /\ UNCHANGED <<issued, view, folded, nfolds, store, cache, loaded, prod, process_root, reading, nstore>>

AdjustTags(s, target, add, remove) ==
    /\ nops < MaxOps
    /\ slice' = [slice EXCEPT ![s] = AdjustTagsSlice(slice[s], target, add, remove)]
    /\ nops' = nops + 1
    /\ UNCHANGED <<issued, view, folded, nfolds, store, cache, loaded, prod, process_root, reading, nstore>>

\* session s joins the copy of another device of its actor into its own copy
JoinCopy(s, t) ==
    /\ nops < MaxOps
    /\ s # t /\ SameActor(s, t)
    /\ slice' = [slice EXCEPT ![s] = SliceJoin(slice[s], slice[t])]
    /\ nops' = nops + 1
    /\ UNCHANGED <<issued, view, folded, nfolds, store, cache, loaded, prod, process_root, reading, nstore>>

\* a Root made of current copies is folded into the running Detailed
Fold(S) ==
    /\ nfolds < MaxFolds
    /\ view' = DetailedJoinRoot(view, RootOf(S))
    /\ folded' = RootJoin(folded, RootOf(S))
    /\ nfolds' = nfolds + 1
    /\ UNCHANGED <<slice, issued, nops, store, cache, loaded, prod, process_root, reading, nstore>>

\* one operation of one of the sessions SS
SessionStep(SS) ==
    \/ \E s \in SS, title \in Titles, message \in FirstBodies, tags \in SUBSET TagNames :
           NewThread(s, title, message, tags)
    \/ \E s \in SS, parent \in TargetArgs, message \in FirstBodies :
           Reply(s, parent, message)
    \/ \E s \in SS, id \in IdArgs, message \in Bodies :
           Edit(s, id, message)
    \/ \E s \in SS, id \in IdArgs, version \in VersionArgs :
           Redact(s, id, version)
    \/ \E s \in SS, target \in TargetArgs, reaction \in ReactionNames, vote \in BOOLEAN :
           React(s, target, reaction, vote)
    \/ \E s \in SS, target \in TargetArgs, add \in SUBSET TagNames, remove \in SUBSET TagNames :
           AdjustTags(s, target, add, remove)

\* two devices of one actor, each working on its own copy of the Slice
Next ==
    \/ SessionStep(DeviceSessions)
    \/ \E s \in DeviceSessions, t \in DeviceSessions : JoinCopy(s, t)

Spec == Init /\ [][Next]_vars

\* sessions of several actors (and of two devices of one actor) author at
\* most MaxAuthored operations, and Roots made of their copies are folded
\* into the running Detailed at any point in between
NextFold ==
    \/ \E s \in FoldSessions, title \in Titles, message \in FirstBodies, tags \in SUBSET TagNames :
           nops < MaxAuthored /\ NewThread(s, title, message, tags)
    \/ \E s \in FoldSessions, parent \in TargetArgs, message \in FirstBodies :
           nops < MaxAuthored /\ Reply(s, parent, message)
    \/ \E s \in FoldSessions, id \in IdArgs, message \in Bodies :
           nops < MaxAuthored /\ Edit(s, id, message)
    \/ \E s \in FoldSessions, id \in IdArgs, version \in VersionArgs :
           nops < MaxAuthored /\ Redact(s, id, version)
    \/ \E s \in FoldSessions, target \in TargetArgs, reaction \in ReactionNames, vote \in BOOLEAN :
           nops < MaxAuthored /\ React(s, target, reaction, vote)
    \/ \E s \in FoldSessions, target \in TargetArgs, add \in SUBSET TagNames, remove \in SUBSET TagNames :
           nops < MaxAuthored /\ AdjustTags(s, target, add, remove)
    \/ \E S \in RootChoices : Fold(S)

SpecFold == Init /\ [][NextFold]_vars

\* a session starts from a Slice decoded from storage, which may hold any
\* tag counter (the code keeps a branch for residue 3); the other copies
\* are empty
InitTags ==
    /\ \E c \in 0..MaxStored :
           slice = [s \in Sessions |->
                       IF s = <<"alice", 0>>
                       THEN [owned |-> EmptyMap,
                             shared |-> MapPut(EmptyMap, <<"alice", 0>>,
                                               [tags |-> [g \in TagNames |-> c],
                                                reactions |-> EmptyMap])]
                       ELSE SliceDefault]
    /\ issued = [s \in Sessions |-> <<>>]
    /\ nops = 0
    /\ view = DetailedDefault
    /\ folded = EmptyMap
    /\ nfolds = 0
    /\ store = EmptyMap
    /\ cache = CacheAbsent
    /\ loaded = NotLoaded
    /\ prod = <<ProductDefault, ProductDefault, ProductDefault>>
    /\ process_root = [s \in Sessions |-> EmptyMap]
    /\ reading = [s \in Sessions |-> NotReading]
    /\ nstore = 0

\* adjust_tags calls on the devices' copies
NextTags ==
    \E s \in DeviceSessions, target \in TargetArgs, add \in SUBSET TagNames, remove \in SUBSET TagNames :
        AdjustTags(s, target, add, remove)

SpecTags == InitTags /\ [][NextTags]_vars

(***************************************************************************)
(* Publishing and caching through git                                      *)
(***************************************************************************)
\* The Slice an Actor works on is borrowed from its process's Root, whose
\* other entries are those of the last read of refs/threads (none for
\* Root::default()).  The Root has an entry for the process's own actor once
\* that entry was read or written.
SessionRoot(s) ==
    IF s[1] \in DOMAIN process_root[s] \/ slice[s] # SliceDefault
    THEN MapPut(process_root[s], s[1], slice[s])
    ELSE process_root[s]

\* coalate_slices_into_root_from_git: a fresh Root from the published Slices;
\* the process goes on from what is stored under its actor's name, or from
\* the bottom Slice
LoadSlices(s) ==
    /\ ~reading[s].open
    /\ nstore < MaxStoreSteps
    /\ nstore' = nstore + 1
    /\ process_root' = [process_root EXCEPT ![s] = CoalateRoot(store)]
    /\ slice' = [slice EXCEPT ![s] = Entry(CoalateRoot(store), s[1], SliceDefault)]
    /\ UNCHANGED <<issued, nops, view, folded, nfolds, store, cache, loaded, prod, reading>>

\* save_actor_slice_to_git up to `find_reference("refs/threads")`: the Slice
\* is encoded and the current tree is read
PublishRead(s, actor_name) ==
    /\ ~reading[s].open
    /\ nstore < MaxStoreSteps
    /\ nstore' = nstore + 1
    /\ reading' = [reading EXCEPT ![s] =
                       [open |-> TRUE, tree |-> store, name |-> actor_name,
                        blob |-> Entry(SessionRoot(s), actor_name, SliceDefault)]]
    /\ UNCHANGED <<slice, issued, nops, view, folded, nfolds, store, cache, loaded, prod, process_root>>

\* the rest of save_actor_slice_to_git: the tree that was read, with the
\* entry `actor_name` replaced, is written and refs/threads is forced to it
PublishWrite(s) ==
    /\ reading[s].open
    /\ nstore < MaxStoreSteps
    /\ nstore' = nstore + 1
    /\ store' = MapPut(reading[s].tree, reading[s].name, reading[s].blob)
    /\ reading' = [reading EXCEPT ![s] = NotReading]
    /\ UNCHANGED <<slice, issued, nops, view, folded, nfolds, cache, loaded, prod, process_root>>

\* save_cache_to_git: the encoding of the process's Root
SaveCache(s) ==
    /\ ~reading[s].open
    /\ nstore < MaxStoreSteps
    /\ nstore' = nstore + 1
    /\ cache' = CacheBlob(SessionRoot(s))
    /\ UNCHANGED <<slice, issued, nops, view, folded, nfolds, store, loaded, prod, process_root, reading>>

\* load_cache_from_git
LoadCache ==
    /\ nstore < MaxStoreSteps
    /\ nstore' = nstore + 1
    /\ loaded' = LoadCacheResult(cache, store)
    /\ UNCHANGED <<slice, issued, nops, view, folded, nfolds, store, cache, prod, process_root, reading>>

\* a repository whose cache reference is missing or holds foreign bytes
InitStore ==
    /\ slice = [s \in Sessions |-> SliceDefault]
    /\ issued = [s \in Sessions |-> <<>>]
    /\ nops = 0
    /\ view = DetailedDefault
    /\ folded = EmptyMap
    /\ nfolds = 0
    /\ store = EmptyMap
    /\ cache \in {CacheAbsent, CacheUndecodable}
    /\ loaded = NotLoaded
    /\ prod = <<ProductDefault, ProductDefault, ProductDefault>>
    /\ process_root = [s \in Sessions |-> EmptyMap]
    /\ reading = [s \in Sessions |-> NotReading]
    /\ nstore = 0

NextStore ==
    \/ \E s \in Sessions, title \in Titles, message \in FirstBodies :
           nops < MaxAuthored /\ ~reading[s].open /\ NewThread(s, title, message, {})
    \/ \E s \in Sessions, target \in StoreTargets, reaction \in ReactionNames, vote \in BOOLEAN :
           nops < MaxAuthored /\ ~reading[s].open /\ React(s, target, reaction, vote)
    \/ \E s \in Sessions : LoadSlices(s)
    \/ \E s \in Sessions, actor_name \in Actors : PublishRead(s, actor_name)
    \/ \E s \in Sessions : PublishWrite(s)
    \/ \E s \in Sessions : SaveCache(s)
    \/ LoadCache

SpecStore == InitStore /\ [][NextStore]_vars

(***************************************************************************)
(* Derived struct values                                                   *)
(***************************************************************************)
Products == [m : 0..MaxField, s : SUBSET ProductElems]

\* the first value absorbs the second
ProductJoinAssign ==
    /\ prod' = <<ProductJoin(prod[1], prod[2]), prod[2], prod[3]>>
    /\ UNCHANGED <<slice, issued, nops, view, folded, nfolds, store, cache, loaded, process_root, reading, nstore>>

\* the three values change places
ProductRotate ==
    /\ prod' = <<prod[2], prod[3], prod[1]>>
    /\ UNCHANGED <<slice, issued, nops, view, folded, nfolds, store, cache, loaded, process_root, reading, nstore>>

InitDerive ==
    /\ slice = [s \in Sessions |-> SliceDefault]
    /\ issued = [s \in Sessions |-> <<>>]
    /\ nops = 0
    /\ view = DetailedDefault
    /\ folded = EmptyMap
    /\ nfolds = 0
    /\ store = EmptyMap
    /\ cache = CacheAbsent
    /\ loaded = NotLoaded
    /\ prod \in Products \X Products \X Products
    /\ process_root = [s \in Sessions |-> EmptyMap]
    /\ reading = [s \in Sessions |-> NotReading]
    /\ nstore = 0

NextDerive == ProductJoinAssign \/ ProductRotate

SpecDerive == InitDerive /\ [][NextDerive]_vars

(***************************************************************************)
(* Properties                                                              *)
(***************************************************************************)
\* the orders in which the elements of S can be visited
Perms(S) ==
    {f \in [1..Cardinality(S) -> S] : \A i, j \in DOMAIN f : i # j => f[i] # f[j]}

\* every choice of an owned order and a shared order for each actor of root
InnerOrders(root) ==
    LET pairs(a) == Perms(DOMAIN root[a].owned) \X Perms(DOMAIN root[a].shared)
    IN {f \in [DOMAIN root -> UNION {pairs(a) : a \in DOMAIN root}] :
            \A a \in DOMAIN root : f[a] \in pairs(a)}

\* the keys (actor, id) of a two-level map
Keys2(m) == UNION {{<<a, id>> : id \in DOMAIN m[a]} : a \in DOMAIN m}

\* every MessageID some owned item of root replies to
Parents(root) ==
    UNION {UNION {root[a].owned[id].reply_to : id \in DOMAIN root[a].owned} :
               a \in DOMAIN root}

\* the owned items of root that reply to P
RepliesTo(root, P) ==
    UNION {{<<a, id>> : id \in {i \in DOMAIN root[a].owned :
                                    P \in root[a].owned[i].reply_to}} :
               a \in DOMAIN root}

\* the cells (id, version) of an owned map or message map whose tag is tg
Cells(items, tg) ==
    UNION {{<<id, v>> : v \in {w \in DOMAIN items[id].content :
                                   items[id].content[w].tag = tg}} :
               id \in DOMAIN items}

\* the tombstoned and the live cells of a Slice
Tombs(sl) == Cells(sl.owned, "Redacted")
Lives(sl) == Cells(sl.owned, "Data")

\* the tombstoned cells of actor a's messages in a Detailed
ViewTombs(d, a) == Cells(Entry(d.messages, a, EmptyMap), "Redacted")

\* the Detailed folded from copy c1 of actor a and then from copy c2
FoldTwo(a, c1, c2) ==
    DetailedJoinRoot(DetailedJoinRoot(DetailedDefault, MapPut(EmptyMap, a, c1)),
                     MapPut(EmptyMap, a, c2))

\* every tombstone of a copy (taken from the copies sl) is a tombstone of the
\* Detailed folded from that copy and any other copy of the actor, in either
\* order
TombsFolded(sl) ==
    \A s, t \in DeviceSessions :
        (s # t /\ Tombs(sl[s]) # {}) =>
            /\ Tombs(sl[s]) \subseteq ViewTombs(FoldTwo(s[1], sl[t], sl[s]), s[1])
            /\ Tombs(sl[s]) \subseteq ViewTombs(FoldTwo(s[1], sl[s], sl[t]), s[1])

\* the elements of a sequence
Range(q) == {q[i] : i \in 1..Len(q)}

\* C1: folding the actors of the folded Root into an empty Detailed one at a
\* time gives the same Detailed for every order of the actors and, inside
\* each actor, every order of its owned items and of its shared entries.
FoldOrderIndependent ==
    \A actorOrder \in Perms(DOMAIN folded) :
        \A orders \in InnerOrders(folded) :
            FoldRootFrom(DetailedDefault, folded, actorOrder, orders, 1)
                = DetailedJoinRoot(DetailedDefault, folded)

\* C1 witness: a Root of two actors has been folded and a reply of one of
\* them points at the other's message, so the actor order decides whether
\* the backref is written before or after the message it lands on.
FoldOrderWitness ==
    /\ Cardinality(DOMAIN folded) = 2
    /\ view = DetailedJoinRoot(DetailedDefault, folded)
    /\ \E a \in DOMAIN view.messages : \E id \in DOMAIN view.messages[a] :
           /\ view.messages[a][id].content # EmptyMap
           /\ \E r \in view.messages[a][id].backrefs : r[1] # a

\* C2: the Detailed built by folding Roots one after another equals the
\* Detailed built by folding their join once, and folding that join again
\* changes nothing.
IncrementalEqualsSinglePass ==
    /\ view = DetailedJoinRoot(DetailedDefault, folded)
    /\ DetailedJoinRoot(view, folded) = view

\* C2 witness: two folds have happened, the actor's current copy is newer
\* than nothing (it holds items and votes), and the view holds votes.
IncrementalWitness ==
    /\ nfolds >= 2
    /\ \E a \in DOMAIN folded :
           /\ DOMAIN folded[a].owned # {}
           /\ DOMAIN folded[a].shared # {}
    /\ \E a \in DOMAIN view.messages : \E id \in DOMAIN view.messages[a] :
           DOMAIN view.messages[a][id].reactions # {}

\* C3: in the view, the backrefs of every MessageID P are exactly the owned
\* items of the folded Root whose reply_to contains P.
BackrefsInverse ==
    \A P \in Keys2(view.messages) \cup Parents(folded) \cup TargetArgs :
        Get2(view.messages, P[1], P[2], CommentDefault).backrefs
            = RepliesTo(folded, P)

\* C3 witness: some message of the view has a backref.
BackrefsWitness ==
    \E a \in DOMAIN view.messages : \E id \in DOMAIN view.messages[a] :
        /\ view.messages[a][id].backrefs # {}
        /\ RepliesTo(folded, <<a, id>>) # {}

\* C4: the LocalIDs returned to one session by new_thread and reply are
\* strictly increasing (so none is returned twice).
IssuedStrictlyIncreasing ==
    \A s \in Sessions : \A i, j \in 1..Len(issued[s]) :
        i < j => issued[s][i] < issued[s][j]

\* C5: no LocalID returned to one device of an actor is returned to another
\* device of that actor.
DeviceDisjoint ==
    \A s, t \in Sessions :
        (s # t /\ SameActor(s, t)) => Range(issued[s]) \cap Range(issued[t]) = {}

\* C5 witness: both devices have been given LocalIDs and one device's copy
\* holds, after a join, an item the other device authored.
DeviceDisjointWitness ==
    \E s, t \in Sessions :
        /\ s # t /\ SameActor(s, t)
        /\ issued[s] # <<>> /\ issued[t] # <<>>
        /\ issued[t][1] \in DOMAIN slice[s].owned
        /\ issued[s][1] \in DOMAIN slice[s].owned

\* C6: every step leaves each session's Slice above what it was:
\* join(before, after) = after.
SliceOnlyGrows ==
    [][\A s \in Sessions : SliceJoin(slice[s], slice'[s]) = slice'[s]]_vars

\* C6 witness: a session's Slice holds an item with two content versions and
\* a tag counter that moved past positive.
SliceGrowsWitness ==
    \E s \in Sessions :
        /\ \E id \in DOMAIN slice[s].owned :
               Cardinality(DOMAIN slice[s].owned[id].content) >= 2
        /\ \E k \in DOMAIN slice[s].shared : \E g \in DOMAIN slice[s].shared[k].tags :
               slice[s].shared[k].tags[g] >= 2

\* C7: no step lowers a stored reaction counter or tag counter.
CounterMonotone ==
    [][\A s \in Sessions : \A k \in DOMAIN slice[s].shared :
          /\ k \in DOMAIN slice'[s].shared
          /\ \A r \in DOMAIN slice[s].shared[k].reactions :
                 /\ r \in DOMAIN slice'[s].shared[k].reactions
                 /\ slice[s].shared[k].reactions[r] <= slice'[s].shared[k].reactions[r]
          /\ \A g \in DOMAIN slice[s].shared[k].tags :
                 /\ g \in DOMAIN slice'[s].shared[k].tags
                 /\ slice[s].shared[k].tags[g] <= slice'[s].shared[k].tags[g]]_vars

\* C7 witness: a reaction was given and withdrawn (counter 2) on one device
\* and the other device's copy has received that counter by a join.
CounterMonotoneWitness ==
    \E s, t \in Sessions : \E k \in DOMAIN slice[s].shared \cap DOMAIN slice[t].shared :
        /\ s # t
        /\ \E r \in DOMAIN slice[s].shared[k].reactions \cap DOMAIN slice[t].shared[k].reactions :
               /\ slice[s].shared[k].reactions[r] >= 2
               /\ slice[t].shared[k].reactions[r] >= 2

\* C8: a tombstoned cell of a copy stays tombstoned in that copy across
\* every step, and it is tombstoned in the Detailed obtained by folding
\* any copy (which may hold a live value in that cell) and then this one.
TombstonePermanent ==
    [][/\ \A s \in Sessions : Tombs(slice[s]) \subseteq Tombs(slice'[s])
       /\ TombsFolded(slice')]_vars

\* C8 witness: a copy holds a tombstone in a cell where another copy of the
\* same actor holds a live value, and it has already joined that copy (it
\* holds the title the other device authored).
TombstoneWitness ==
    \E s, t \in Sessions : \E c \in Tombs(slice[s]) \cap Lives(slice[t]) :
        /\ s # t /\ SameActor(s, t)
        /\ slice[s].owned[c[1]].titles.value # {}
        /\ issued[s] = <<>>

\* C9: for two devices of an actor and any item id, the versions their
\* edits return differ from each other and from every version key either
\* copy already holds for that item.
ConcurrentEditsDistinct ==
    \A s, t \in DeviceSessions : \A id \in IdArgs :
        (s # t /\ SameActor(s, t)) =>
            LET v1 == EditVersion(slice[s], s[2], id)
                v2 == EditVersion(slice[t], t[2], id)
                keys == DOMAIN Entry(slice[s].owned, id, OwnedDefault).content
                          \cup DOMAIN Entry(slice[t].owned, id, OwnedDefault).content
            IN v1 # v2 /\ v1 \notin keys /\ v2 \notin keys

\* C10: a redact step leaves content[version] of the item tombstoned and
\* changes nothing else: the item's other versions, its titles and
\* reply_to, every other owned item and the shared map.
RedactFrame ==
    [][\A s \in Sessions, id \in IdArgs, version \in VersionArgs :
          Redact(s, id, version) =>
              LET before == Entry(slice[s].owned, id, OwnedDefault)
                  after == slice'[s].owned[id]
              IN /\ DOMAIN slice'[s].owned = DOMAIN slice[s].owned \cup {id}
                 /\ \A i \in DOMAIN slice[s].owned \ {id} :
                        slice'[s].owned[i] = slice[s].owned[i]
                 /\ slice'[s].shared = slice[s].shared
                 /\ after.titles = before.titles
                 /\ after.reply_to = before.reply_to
                 /\ DOMAIN after.content = DOMAIN before.content \cup {version}
                 /\ after.content[version] = Redacted
                 /\ \A v \in DOMAIN before.content \ {version} :
                        after.content[v] = before.content[v]]_vars

\* C10 witness: an item holds a tombstoned version next to a live one.
RedactFrameWitness ==
    \E s \in Sessions : \E id \in DOMAIN slice[s].owned :
        \E v1, v2 \in DOMAIN slice[s].owned[id].content :
            /\ v1 \in VersionArgs
            /\ slice[s].owned[id].content[v1] = Redacted
            /\ slice[s].owned[id].content[v2].tag = "Data"

\* the stored reaction counter of a Slice (0 when there is none)
ReactionCounter(sl, target, reaction) ==
    Entry(Entry(sl.shared, target, SharedDefault).reactions, reaction, 0)

\* C11: a react step adds exactly 1 to the (target, reaction) counter when
\* its residue mod 2 differs from the wanted vote and leaves it as it was
\* otherwise; afterwards the residue is the wanted vote, and the same call
\* made again would leave the whole Slice unchanged.
ReactParity ==
    [][\A s \in Sessions, target \in TargetArgs, reaction \in ReactionNames, vote \in BOOLEAN :
          React(s, target, reaction, vote) =>
              LET old == ReactionCounter(slice[s], target, reaction)
                  new == ReactionCounter(slice'[s], target, reaction)
                  want == IF vote THEN 1 ELSE 0
              IN /\ new = (IF old % 2 # want THEN old + 1 ELSE old)
                 /\ new % 2 = want
                 /\ ReactSlice(slice'[s], target, reaction, vote) = slice'[s]]_vars

\* C11 witness: a reaction counter has been stepped to 3 (given, withdrawn,
\* given again), so both directions of the parity rule have acted.
ReactParityWitness ==
    \E s \in Sessions, target \in TargetArgs, reaction \in ReactionNames :
        ReactionCounter(slice[s], target, reaction) = 3

\* the stored tag counter of a Slice (0 when there is none)
TagCounter(sl, target, tag) ==
    Entry(Entry(sl.shared, target, SharedDefault).tags, tag, 0)

\* the documented changes of a tag counter, by residue 0, 1, 2, 3
AddTable == <<1, 0, 3, 2>>
RemoveTable == <<2, 1, 0, 3>>

\* C12: an adjust_tags step changes the counter of a tag in add by +1, 0,
\* +3, +2 and of a tag in remove by +2, +1, 0, +3 for residues 0, 1, 2, 3
\* (a tag in both is added, then removed); the residue is 1 after an add
\* and 2 after a remove, and a tag in neither keeps its counter.
TagTable ==
    [][\A s \in Sessions, target \in TargetArgs, add \in SUBSET TagNames, remove \in SUBSET TagNames :
          AdjustTags(s, target, add, remove) =>
              \A g \in TagNames :
                  LET old == TagCounter(slice[s], target, g)
                      new == TagCounter(slice'[s], target, g)
                      mid == IF g \in add THEN old + AddTable[(old % 4) + 1] ELSE old
                  IN /\ g \in add => mid % 4 = 1
                     /\ new = (IF g \in remove THEN mid + RemoveTable[(mid % 4) + 1]
                               ELSE mid)
                     /\ g \in remove => new % 4 = 2]_vars

\* C12 witness: after one adjust_tags call a counter reads 7 or more with
\* residue 2 (a stored counter was stepped to negative, among others from
\* the reserved residue: 7 + 3 = 10).
TagTableWitness ==
    /\ nops = 1
    /\ \E s \in Sessions, target \in TargetArgs, g \in TagNames :
           /\ TagCounter(slice[s], target, g) % 4 = 2
           /\ TagCounter(slice[s], target, g) > MaxStored

\* C19: starting from empty Slices, no stored tag counter has residue 3,
\* and no attributed tag vote folded from the devices' copies has.
ReservedUnreachable ==
    /\ \A s \in Sessions : \A k \in DOMAIN slice[s].shared :
           \A g \in DOMAIN slice[s].shared[k].tags :
               slice[s].shared[k].tags[g] % 4 # 3
    /\ \A s, t \in DeviceSessions :
           LET d == FoldTwo(s[1], slice[s], slice[t])
           IN \A k \in Keys2(d.threads) :
                  \A g \in DOMAIN d.threads[k[1]][k[2]].tags :
                      \A a \in DOMAIN d.threads[k[1]][k[2]].tags[g] :
                          d.threads[k[1]][k[2]].tags[g][a] % 4 # 3

\* C19 witness: a tag counter has wrapped (negative, then positive again:
\* 0 -> 2 -> 5) on one device and the other device holds the tag as well.
ReservedWitness ==
    \E s, t \in DeviceSessions : \E k \in DOMAIN slice[s].shared \cap DOMAIN slice[t].shared :
        \E g \in DOMAIN slice[s].shared[k].tags \cap DOMAIN slice[t].shared[k].tags :
            /\ s # t
            /\ slice[s].shared[k].tags[g] = 5
            /\ slice[t].shared[k].tags[g] >= 1

(***************************************************************************)
(* C13: last-write-wins publishing never loses data: after any step the    *)
(* Slice stored for an actor is greater than or equal, in the join order,  *)
(* to the Slice stored for it before, and publishing an identical Slice    *)
(* leaves the store unchanged.                                             *)
(***************************************************************************)
StoreOnlyGrows ==
    [][/\ \A a \in DOMAIN store :
              /\ a \in DOMAIN store'
              /\ SliceJoin(store[a], store'[a]) = store'[a]
       /\ \A s \in Sessions :
              (/\ PublishWrite(s)
               /\ reading[s].tree = store
               /\ reading[s].name \in DOMAIN store
               /\ store[reading[s].name] = reading[s].blob)
                  => store' = store]_vars

(***************************************************************************)
(* C14, as stated: a load of the cache whose blob is absent or undecodable *)
(* does not fail and returns the Root rebuilt from the published Slices.   *)
(***************************************************************************)
CacheLoadFallsBack ==
    [][(LoadCache /\ cache.state # "blob")
          => loaded' = LoadOk(CoalateRoot(store))]_vars

(***************************************************************************)
(* C14, amended: a load of the cache fails (panics) exactly when the blob  *)
(* is absent or undecodable; otherwise it returns the Root last saved,     *)
(* whatever the published Slices are.                                      *)
(***************************************************************************)
CacheLoadPanics ==
    [][LoadCache =>
          /\ (cache.state # "blob" => loaded' = LoadPanic)
          /\ (cache.state = "blob" => loaded' = LoadOk(cache.root))
          /\ (loaded'.status = "panic" <=> cache.state \in {"absent", "undecodable"})]_vars

\* a load panicked on an undecodable cache while Slices were published
CacheLoadWitness ==
    /\ loaded = LoadPanic
    /\ cache = CacheUndecodable
    /\ \E a \in DOMAIN store : store[a] # SliceDefault

(***************************************************************************)
(* C15: for a struct of semilattice fields the generated join is the       *)
(* field-by-field join, the generated comparison combines the fields'      *)
(* orderings (all Equal: Equal; Equal-or-Less with a Less: Less; the same  *)
(* for Greater; otherwise no order), x <= y holds exactly when             *)
(* join(x, y) = y, and the join is idempotent, commutative and associative.*)
(***************************************************************************)
ProductLeq(x, y) == ProductCmp(x, y) \in {"Less", "Equal"}

ProductOrderAgreement ==
    LET x == prod[1]
        y == prod[2]
        z == prod[3]
        fields == <<MaxCmp(x.m, y.m), SetCmp(x.s, y.s)>>
        some(o) == \E i \in 1..2 : fields[i] = o
        only(os) == \A i \in 1..2 : fields[i] \in os
    IN /\ ProductJoin(x, y).m = MaxJoin(x.m, y.m)
       /\ ProductJoin(x, y).s = SetJoin(x.s, y.s)
       /\ ProductCmp(x, y) = "Equal" <=> only({"Equal"})
       /\ ProductCmp(x, y) = "Less" <=> (only({"Equal", "Less"}) /\ some("Less"))
       /\ ProductCmp(x, y) = "Greater" <=> (only({"Equal", "Greater"}) /\ some("Greater"))
       /\ ProductCmp(x, y) = "None" <=> (some("None") \/ (some("Less") /\ some("Greater")))
       /\ ProductLeq(x, y) <=> ProductJoin(x, y) = y
       /\ ProductLeq(y, x) <=> ProductJoin(x, y) = x
       /\ ProductJoin(x, x) = x
       /\ ProductJoin(x, y) = ProductJoin(y, x)
       /\ ProductJoin(ProductJoin(x, y), z) = ProductJoin(x, ProductJoin(y, z))

\* the first value has absorbed the second, their sets differ and their
\* counters do not, and the third value is incomparable to both
ProductWitness ==
    /\ prod[1] = ProductJoin(prod[1], prod[2])
    /\ prod[1].m = prod[2].m
    /\ ProductCmp(prod[1], prod[2]) = "Greater"
    /\ ProductCmp(prod[2], prod[3]) = "None"
    /\ ProductCmp(prod[1], prod[3]) = "None"
    /\ prod[3].m < prod[1].m
    /\ ~(prod[3].s \subseteq prod[1].s)

(***************************************************************************)
(* C16: after any folds, for every target and every reaction or tag the    *)
(* attributed vote holds one counter for exactly the actors whose folded   *)
(* Slices have an entry for it, equal to the maximum of that actor's       *)
(* folded counters, so each actor falls in one category of the histogram.  *)
(***************************************************************************)
\* the actors whose folded Slices hold a counter for `name` on `key`
Voters(key, field, name) ==
    {a \in DOMAIN folded :
        /\ key \in DOMAIN folded[a].shared
        /\ name \in DOMAIN folded[a].shared[key][field]}

\* number of actors of a vote in category c of N
Histogram(vote, n, c) == Cardinality({a \in DOMAIN vote : vote[a] % n = c})

VoteMatches(vote, key, field, name, n) ==
    /\ DOMAIN vote = Voters(key, field, name)
    /\ \A a \in DOMAIN vote : vote[a] = folded[a].shared[key][field][name]
    /\ \A c \in 0..(n - 1) :
           Histogram(vote, n, c)
               = Cardinality({a \in Voters(key, field, name) :
                                 folded[a].shared[key][field][name] % n = c})

OneCounterPerActor ==
    /\ \A key \in Keys2(view.messages) :
           \A r \in DOMAIN view.messages[key[1]][key[2]].reactions :
               VoteMatches(view.messages[key[1]][key[2]].reactions[r],
                           key, "reactions", r, 2)
    /\ \A key \in Keys2(view.threads) :
           \A g \in DOMAIN view.threads[key[1]][key[2]].tags :
               VoteMatches(view.threads[key[1]][key[2]].tags[g],
                           key, "tags", g, 4)
    /\ \A a \in DOMAIN folded : \A key \in DOMAIN folded[a].shared :
           /\ \A r \in DOMAIN folded[a].shared[key].reactions :
                  r \in DOMAIN Get2(view.messages, key[1], key[2], CommentDefault).reactions
           /\ \A g \in DOMAIN folded[a].shared[key].tags :
                  g \in DOMAIN Get2(view.threads, key[1], key[2], ThreadDefault).tags

\* two folds have attributed alice's and bob's counters to one reaction,
\* and a device copy of alice's Slice holds no counter for it: alice's vote
\* is the larger counter of her copies
OneCounterWitness ==
    /\ nfolds = 2
    /\ \E key \in Keys2(view.messages) :
           \E r \in DOMAIN view.messages[key[1]][key[2]].reactions :
               LET vote == view.messages[key[1]][key[2]].reactions[r]
               IN /\ DOMAIN vote = {"alice", "bob"}
                  /\ vote["alice"] = 1
                  /\ \E s \in Sessions :
                         /\ s[1] = "alice"
                         /\ ReactionCounter(slice[s], key, r) = 0

(***************************************************************************)
(* C17: folding each actor's Slice into its own empty Detailed and         *)
(* combining the partial results with the derived join of Detailed, in     *)
(* any grouping and order, gives the Detailed of the single-pass fold of   *)
(* the whole Root.                                                         *)
(***************************************************************************)
\* the fold of one Slice of one actor into an empty Detailed
PartialFold(a, sl) == DetailedJoinRoot(DetailedDefault, MapPut(EmptyMap, a, sl))

ParallelFoldEqualsSinglePass ==
    /\ \A order \in Perms(DOMAIN folded) :
           LET part(i) == IF i <= Len(order)
                          THEN PartialFold(order[i], folded[order[i]])
                          ELSE DetailedDefault
               whole == DetailedJoinRoot(DetailedDefault, folded)
           IN /\ DetailedJoin(DetailedJoin(part(1), part(2)), part(3)) = whole
              /\ DetailedJoin(part(1), DetailedJoin(part(2), part(3))) = whole
              /\ DetailedJoin(part(3), DetailedJoin(part(1), part(2))) = whole
    /\ \A order \in Perms(Sessions) :
           LET part(i) == PartialFold(order[i][1], slice[order[i]])
               whole == DetailedJoinRoot(
                            DetailedDefault,
                            RootJoin(RootOf({<<"alice", 0>>, <<"bob", 0>>}),
                                     RootOf({<<"alice", 1>>})))
           IN /\ DetailedJoin(DetailedJoin(part(1), part(2)), part(3)) = whole
              /\ DetailedJoin(part(1), DetailedJoin(part(2), part(3))) = whole

\* the folded Root holds a Slice of alice and a Slice of bob, one with an item
\* that replies to an item of the other, so that a partial result carries a
\* backref into the other actor's messages
ParallelFoldWitness ==
    /\ DOMAIN folded = {"alice", "bob"}
    /\ \E a \in DOMAIN folded, b \in DOMAIN folded :
           /\ a # b
           /\ \E id \in DOMAIN folded[a].owned :
                  \E p \in folded[a].owned[id].reply_to :
                      /\ p[1] = b
                      /\ p[2] \in DOMAIN folded[b].owned
    /\ view = DetailedJoin(PartialFold("alice", folded["alice"]),
                           PartialFold("bob", folded["bob"]))

(***************************************************************************)
(* C18: in every folded Detailed no message is reachable from itself by    *)
(* following backrefs, so the traversal `display` starts at a thread       *)
(* visits finitely many messages.                                          *)
(***************************************************************************)
BackrefsOf(k) == Get2(view.messages, k[1], k[2], CommentDefault).backrefs

\* S and everything reached from S in at most n backref steps
RECURSIVE ReachIn(_, _)
ReachIn(S, n) ==
    IF n = 0 THEN S
    ELSE ReachIn(S \cup UNION {BackrefsOf(k) : k \in S}, n - 1)

\* the messages `display` pushes after popping k, transitively
Descendants(k) == ReachIn(BackrefsOf(k), Cardinality(Keys2(view.messages)))

ReplyTree ==
    \A k \in Keys2(view.messages) \cup Keys2(view.threads) : k \notin Descendants(k)

(***************************************************************************)
(* C20: in every folded Detailed, every (actor, id) that is a key of       *)
(* threads and every MessageID in a backrefs set is a key of messages, so  *)
(* the lookups of `display` find their message.                            *)
(***************************************************************************)
ReferentialIntegrity ==
    /\ Keys2(view.threads) \subseteq Keys2(view.messages)
    /\ \A k \in Keys2(view.messages) :
           view.messages[k[1]][k[2]].backrefs \subseteq Keys2(view.messages)
    /\ \A k \in Keys2(view.threads) :
           ReachIn({k}, Cardinality(Keys2(view.messages))) \subseteq Keys2(view.messages)

\* a thread that exists only through a tag vote on an id nobody authored,
\* whose message exists only as the target of that vote and the parent of a
\* reply
ReferentialWitness ==
    /\ \E k \in Keys2(view.threads) :
           /\ \A a \in DOMAIN folded : k[1] = a => k[2] \notin DOMAIN folded[a].owned
           /\ k \in Keys2(view.messages)
           /\ view.messages[k[1]][k[2]].reactions = EmptyMap
           /\ view.messages[k[1]][k[2]].backrefs # {}
           /\ view.messages[k[1]][k[2]].content = EmptyMap

====
